---- MODULE Spec2Model ----
(***************************************************************************)
(* Model of main.py (Sistema de Gestao de Visitantes, Membros e            *)
(* Funcionarios): the five .xlsx workbooks, the login session, the open    *)
(* DataWindows with their TreeView snapshots, and the handlers that read   *)
(* and write them.                                                         *)
(*                                                                         *)
(* A workbook is the sequence of its worksheet rows, row 1 being the       *)
(* header, as openpyxl presents it (ws.max_row = Len, iter_rows(min_row=2) *)
(* = rows 2..Len).  A cell value is a Python int, a Python str or None.    *)
(* The DataHora column of the log is the wall clock and is not modelled.   *)
(* logs.xlsx is <<>> while the file does not exist, and log_locked holds   *)
(* while opening or saving it fails with an error other than               *)
(* FileNotFoundError.  messagebox is the text of the box the latest        *)
(* handler raised itself, "" when it raised none; the "Campo Vazio"        *)
(* warnings of a RecordDialog are answered inside the dialog and are not   *)
(* recorded.                                                               *)
(* Header names are written without their diacritics.                      *)
(***************************************************************************)
EXTENDS Integers, Sequences, FiniteSets, Bags, TLC

VARIABLES files, log, log_locked, screen, usuario, permissao, wins,
          messagebox, retired

vars ==
    <<files, log, log_locked, screen, usuario, permissao, wins, messagebox,
      retired>>

(* ---------------------------- bounds --------------------------------- *)

MaxRows == 2

MaxUserRows == 3

MaxId == 2

MaxLog == 2

MaxWindows == 1

MaxStale == 2

MaxLongLog == 3

(* ------------------------- cell values ------------------------------- *)

PyInt(n) == [t |-> "int", n |-> n, s |-> ""]

PyStr(s) == [t |-> "str", n |-> 0, s |-> s]

PyNone == [t |-> "none", n |-> 0, s |-> ""]

StrRow(seq) == [i \in 1..Len(seq) |-> PyStr(seq[i])]

Digits == "0123456789"

UpperChars == "ABCDEFGHIJKLMNOPQRSTUVWXYZ"

LowerChars == "abcdefghijklmnopqrstuvwxyz"

CharAt(s, i) == SubSeq(s, i, i)

isdigit(s) ==
    /\ Len(s) > 0
    /\ \A i \in 1..Len(s) : \E d \in 1..10 : CharAt(Digits, d) = CharAt(s, i)

DigitVal(c) == CHOOSE d \in 0..9 : CharAt(Digits, d + 1) = c

RECURSIVE int(_)
int(s) ==
    IF Len(s) = 0 THEN 0
    ELSE int(SubSeq(s, 1, Len(s) - 1)) * 10 + DigitVal(CharAt(s, Len(s)))

RECURSIVE IntToStr(_)
IntToStr(n) ==
    IF n < 10 THEN CharAt(Digits, n + 1)
    ELSE IntToStr(n \div 10) \o CharAt(Digits, (n % 10) + 1)

str(cell) ==
    CASE cell.t = "int" -> IntToStr(cell.n)
      [] cell.t = "str" -> cell.s
      [] cell.t = "none" -> "None"

LowerChar(c) ==
    IF \E i \in 1..26 : CharAt(UpperChars, i) = c
    THEN CharAt(LowerChars, CHOOSE i \in 1..26 : CharAt(UpperChars, i) = c)
    ELSE c

RECURSIVE lower(_)
lower(s) ==
    IF Len(s) = 0 THEN ""
    ELSE LowerChar(CharAt(s, 1)) \o lower(SubSeq(s, 2, Len(s)))

Contains(needle, hay) ==
    \E i \in 1..(Len(hay) - Len(needle) + 1) :
        SubSeq(hay, i, i + Len(needle) - 1) = needle

(* What tkinter hands back for a value read from a TreeView item. *)
TkValue(cell) ==
    CASE cell.t = "int" -> cell
      [] cell.t = "str" -> IF isdigit(cell.s) THEN PyInt(int(cell.s)) ELSE cell
      [] cell.t = "none" -> PyStr("None")

(* ------------------------ files and constants ------------------------ *)

VISITORS_FILE == "visitantes.xlsx"

MEMBERS_FILE == "membros.xlsx"

EMPLOYEES_FILE == "funcionarios.xlsx"

USERS_FILE == "usuarios.xlsx"

DataFiles == {VISITORS_FILE, MEMBERS_FILE, EMPLOYEES_FILE}

AllFiles == DataFiles \cup {USERS_FILE}

VISITORS_HEADERS ==
    <<"ID", "Nome", "Telefone", "Email", "Endereco", "Data Nascimento",
      "Data Visita", "Igreja", "Observacoes", "Familia">>

MEMBERS_HEADERS ==
    <<"ID", "Nome", "Telefone", "Email", "Data Nascimento", "Cargo",
      "Batizado", "Endereco", "Familia">>

EMPLOYEES_HEADERS ==
    <<"ID", "Nome", "Cargo", "Telefone", "Email", "Data Admissao",
      "Salario", "Observacoes", "Familia">>

USERS_HEADERS == <<"Usuario", "SenhaHash", "Permissao">>

LOG_HEADERS == <<"Usuario", "Acao", "DataHora">>

PERMISSOES == <<"admin", "completo", "leitura">>

PLACEHOLDER == "********"

HeadersOf(filename) ==
    CASE filename = VISITORS_FILE -> VISITORS_HEADERS
      [] filename = MEMBERS_FILE -> MEMBERS_HEADERS
      [] filename = EMPLOYEES_FILE -> EMPLOYEES_HEADERS
      [] filename = USERS_FILE -> USERS_HEADERS

(* hashlib.sha256(pw.encode()).hexdigest(), tabulated on the plaintexts
   the model hashes. *)
hash_password(pw) ==
    CASE pw = "admin" ->
           "8c6976e5b5410415bde908bd4dee15dfb167a9c873fc4bb8a81f6f2ab448a918"
      [] pw = "completo" ->
           "6c62fe0aa002c9271e32c7c79420d5d38e8b2c153be9affdd3067bf23f412da8"
      [] pw = "leitura" ->
           "538fb039cfaa7cd63f91145c041fc84dcb3ed13adec0d65b00f85703f57b265f"
      [] pw = "abc123" ->
           "6ca13d52ca70c883e0f0bb101e425a89e8624de51db2d2392593af6a84118090"
      [] pw = "********" ->
           "07ab59f4731b0790d0acfded6a52d2c53e7e3c6a1e241f6dfe3a41f3072e07fb"

HashDomain == {"admin", "completo", "leitura", "abc123", "********"}

(* ------------------------- initial files ----------------------------- *)

HeaderOnly(headers) == <<StrRow(headers)>>

(* usuarios.xlsx as criar_arquivos_se_nao_existir writes it when absent. *)
SeededUsers ==
    <<StrRow(USERS_HEADERS),
      StrRow(<<"admin", hash_password("admin"), "admin">>)>>

(* A usuarios.xlsx that already exists at start-up and is left untouched:
   the default admin plus one account of each other permission. *)
ExistingUsers ==
    <<StrRow(USERS_HEADERS),
      StrRow(<<"admin", hash_password("admin"), "admin">>),
      StrRow(<<"ana", hash_password("abc123"), "completo">>),
      StrRow(<<"leo", hash_password("abc123"), "leitura">>)>>

(* A usuarios.xlsx edited outside the program: two rows share a user name
   and a digest and differ in the permission. *)
DuplicateUsers ==
    <<StrRow(USERS_HEADERS),
      StrRow(<<"admin", hash_password("admin"), "admin">>),
      StrRow(<<"leo", hash_password("abc123"), "leitura">>),
      StrRow(<<"leo", hash_password("abc123"), "completo">>)>>

(* A disk on which none of the workbooks exists yet. *)
Absent == [f \in AllFiles |-> <<>>]

(* The record workbooks after criar_arquivos_se_nao_existir ran on a disk
   that maps each file name to its worksheet, <<>> for a file that does not
   exist. *)
criar_arquivos_se_nao_existir(disk) ==
    [f \in AllFiles |->
        IF disk[f] # <<>> THEN disk[f]
        ELSE IF f = USERS_FILE THEN SeededUsers
        ELSE HeaderOnly(HeadersOf(f))]

criar_log_mut(disk_log) == HeaderOnly(LOG_HEADERS)

(* The same for logs.xlsx. *)
criar_log_se_nao_existir(disk_log) ==
    IF disk_log # <<>> THEN disk_log ELSE HeaderOnly(LOG_HEADERS)

(* --------------------------- windows --------------------------------- *)

NoWin == [filename |-> "", read_only |-> FALSE, tree |-> <<>>]

DataRows(ws) == SubSeq(ws, 2, Len(ws))

DisplayRow(filename, row) ==
    IF filename = USERS_FILE
    THEN [row EXCEPT ![2] = PyStr(PLACEHOLDER)]
    ELSE row

load_data(filename, ws) ==
    [i \in 1..(Len(ws) - 1) |-> DisplayRow(filename, ws[i + 1])]

(* ------------------------------ inputs ------------------------------- *)

LoginNames == {"admin", "ana", "leo", "1"}

LoginSecrets == {"admin", "abc123", PLACEHOLDER}

(* Entry contents at the last click on "Salvar" of a RecordDialog, one
   string per header after the first.  <<>> stands for a dialog closed
   without any click on "Salvar". *)
DialogEntries(filename) ==
    CASE filename = VISITORS_FILE ->
           {<<>>,
            <<"Ana", "11", "a@x", "Rua 1", "01/02", "03/04", "Sede", "ok", "Lima">>,
            <<"Bia", "", "", "", "", "", "", "", "">>}
      [] filename = MEMBERS_FILE ->
           {<<>>,
            <<"Caio", "22", "c@x", "05/06", "Diacono", "Sim", "Rua 2", "Melo">>,
            <<"Caio", "22", "c@x", "05/06", "Pastor", "Sim", "Rua 2", "Melo">>}
      [] filename = EMPLOYEES_FILE ->
           {<<>>,
            <<"Davi", "Zelador", "33", "d@x", "07/08", "900", "ok", "Reis">>,
            <<"", "Zelador", "33", "d@x", "07/08", "900", "ok", "Reis">>}
      [] filename = USERS_FILE ->
           {<<>>,
            <<"abc123", "completo">>,
            <<PLACEHOLDER, "leitura">>,
            <<"abc123", "">>}

SearchTerms == {"", "AN", "8c69"}

(* ------------------------------ Init --------------------------------- *)

(* retired is a history variable: with retired.on, retired.ids[f] holds the
   identifiers delete_record has removed from file f so far. *)
StartOn(disks, recording) ==
    /\ \E disk \in disks : files = criar_arquivos_se_nao_existir(disk)
    /\ log = criar_log_se_nao_existir(<<>>)
    /\ log_locked = FALSE
    /\ screen = "login"
    /\ usuario = ""
    /\ permissao = PyNone
    /\ wins = EmptyBag
    /\ messagebox = ""
    /\ retired = [on |-> recording, ids |-> [f \in AllFiles |-> {}]]

Start(recording) ==
    StartOn({[Absent EXCEPT ![USERS_FILE] = usersOnDisk] :
                 usersOnDisk \in {<<>>, ExistingUsers}},
            recording)

Init == Start(FALSE)

InitHist == Start(TRUE)

InitFresh == StartOn({Absent}, FALSE)

InitLogin ==
    StartOn({[Absent EXCEPT ![USERS_FILE] = usersOnDisk] :
                 usersOnDisk \in {<<>>, DuplicateUsers}},
            FALSE)

(* Identifier cells of a visitantes.xlsx written outside the program. *)
AnyIds == {PyInt(1), PyInt(2), PyStr("2"), PyStr("x"), PyNone}

AnyRow(id) ==
    [c \in 1..Len(VISITORS_HEADERS) |-> IF c = 1 THEN id ELSE PyStr("v")]

AnyTables ==
    {HeaderOnly(VISITORS_HEADERS) \o [i \in 1..Len(ids) |-> AnyRow(ids[i])] :
        ids \in UNION {[1..k -> AnyIds] : k \in 0..MaxRows}}

InitAny == StartOn({[Absent EXCEPT ![VISITORS_FILE] = t] : t \in AnyTables}, FALSE)

(* ------------------------- login and logout -------------------------- *)

ERRO_LOGIN == "Usuario ou senha invalidos."

LOG_ERRO == "Arquivo de log nao encontrado. A acao nao sera registrada."

ACESSO_NEGADO == "Voce nao tem permissao para gerenciar usuarios."

ERRO_EDITAR == "Registro nao encontrado no arquivo."

ERRO_EXCLUIR == "Nao foi possivel encontrar o registro para excluir."

ERRO_ADICIONAR == "Nao foi possivel adicionar o registro"

ERRO_EDICAO == "Nao foi possivel editar o registro"

(* The row log_action appends to the worksheet of logs.xlsx. *)
log_action(lg, user, acao) == Append(lg, <<PyStr(user), PyStr(acao)>>)

(* How a call of log_action ends: load_workbook raises FileNotFoundError,
   which log_action catches ("warned"); load_workbook or save raises
   another error, which nothing catches ("raised"); or the row is saved. *)
log_action_ends ==
    IF log = <<>> THEN "warned"
    ELSE IF log_locked THEN "raised"
    ELSE "saved"

(* logs.xlsx and the box on screen once log_action has returned; the log
   grows while it holds at most cap rows. *)
Logged(user, acao, cap) ==
    IF log_action_ends = "saved"
    THEN /\ Len(log) <= cap
         /\ log' = log_action(log, user, acao)
         /\ messagebox' = ""
    ELSE /\ log' = log
         /\ messagebox' = LOG_ERRO

LoginMatch_mut(ws, user, senha) ==
    {i \in 2..Len(ws) : ws[i][1] = PyStr(user)}

LoginMatch(ws, user, senha) ==
    {i \in 2..Len(ws) :
        /\ ws[i][1] = PyStr(user)
        /\ ws[i][2] = PyStr(hash_password(senha))}

Min(S) == CHOOSE x \in S : \A y \in S : x <= y

Max(S) == CHOOSE x \in S : \A y \in S : x >= y

(* The row of the worksheet whose Permissao attempt_login hands on. *)
matched_row_mut(hits) == Max(hits)

matched_row(hits) == Min(hits)

attempt_login(user, senha, cap) ==
    LET ws == files[USERS_FILE]
        hits == LoginMatch(ws, user, senha)
    IN  /\ screen = "login"
        /\ IF hits = {}
           THEN /\ messagebox' = ERRO_LOGIN
                /\ UNCHANGED <<log, permissao, usuario, screen>>
           ELSE IF log_action_ends = "raised"
           THEN /\ messagebox' = ""
                /\ UNCHANGED <<log, permissao, usuario, screen>>
           ELSE /\ Logged(user, "Login bem-sucedido", cap)
                /\ permissao' = ws[matched_row(hits)][3]
                /\ usuario' = user
                /\ screen' = "menu"
        /\ UNCHANGED <<files, log_locked, wins, retired>>

logout_mut(cap) ==
    /\ screen = "menu"
    /\ Logged(usuario, "Logout", cap)
    /\ UNCHANGED <<files, log_locked, screen, usuario, permissao, wins, retired>>

logout_open_mut(cap) ==
    /\ screen = "menu"
    /\ Logged(usuario, "Logout", cap)
    /\ screen' = "login"
    /\ usuario' = ""
    /\ permissao' = PyNone
    /\ UNCHANGED <<files, log_locked, wins, retired>>

logout(cap) ==
    /\ screen = "menu"
    /\ IF log_action_ends = "raised"
       THEN /\ messagebox' = ""
            /\ UNCHANGED <<log, wins, screen, usuario, permissao>>
       ELSE /\ Logged(usuario, "Logout", cap)
            /\ wins' = EmptyBag
            /\ screen' = "login"
            /\ usuario' = ""
            /\ permissao' = PyNone
    /\ UNCHANGED <<files, log_locked, retired>>

(* The process ends and main() runs again on the files left on disk. *)
main ==
    /\ files' = criar_arquivos_se_nao_existir(files)
    /\ log' = criar_log_se_nao_existir(log)
    /\ wins' = EmptyBag
    /\ screen' = "login"
    /\ usuario' = ""
    /\ permissao' = PyNone
    /\ messagebox' = ""
    /\ UNCHANGED <<log_locked, retired>>

(* Outside the program: logs.xlsx is removed from the disk. *)
apagar_log ==
    /\ log # <<>>
    /\ log' = <<>>
    /\ UNCHANGED <<files, log_locked, screen, usuario, permissao, wins,
                   messagebox, retired>>

(* Outside the program: logs.xlsx becomes unreadable or unwritable (another
   program holds it open, its permissions change), or usable again. *)
travar_log ==
    /\ log_locked' = ~log_locked
    /\ UNCHANGED <<files, log, screen, usuario, permissao, wins, messagebox,
                   retired>>

(* --------------------------- DataWindow ------------------------------ *)

read_only_mut(perm) == FALSE

read_only_of(perm) == perm = PyStr("leitura")

is_admin_mut(perm) == perm # PyNone

(* The test permissao == "admin" of MainMenu.__init__ and DataWindow.__init__. *)
is_admin(perm) == perm = PyStr("admin")

(* DataWindow.__init__: NoWin when the constructor returns before building
   the window. *)
DataWindow(filename, perm) ==
    IF /\ ~read_only_of(perm)
       /\ filename = USERS_FILE
       /\ ~is_admin(perm)
    THEN NoWin
    ELSE [filename |-> filename,
          read_only |-> read_only_of(perm),
          tree |-> load_data(filename, files[filename])]

Open(w) == IF w = NoWin THEN wins ELSE wins (+) SetToBag({w})

Replace(w, w2) == (wins (-) SetToBag({w})) (+) SetToBag({w2})

(* limit caps the number of DataWindows open at a time. *)
abrir_janela_dados(filename, limit) ==
    LET w == DataWindow(filename, permissao)
    IN  /\ screen = "menu"
        /\ BagCardinality(wins) < limit
        /\ wins' = Open(w)
        /\ messagebox' = IF w = NoWin THEN ACESSO_NEGADO ELSE ""
        /\ UNCHANGED <<files, log, log_locked, screen, usuario, permissao,
                       retired>>

abrir_visitantes == abrir_janela_dados(VISITORS_FILE, MaxWindows)

abrir_membros == abrir_janela_dados(MEMBERS_FILE, MaxWindows)

abrir_funcionarios == abrir_janela_dados(EMPLOYEES_FILE, MaxWindows)

(* "Cadastro de Visitantes" clicked while windows may already be open. *)
abrir_visitantes_de_novo == abrir_janela_dados(VISITORS_FILE, MaxStale)

(* The "Gerenciar Usuarios" button exists only in an admin's menu. *)
gerenciar_usuarios ==
    /\ is_admin(permissao)
    /\ abrir_janela_dados(USERS_FILE, MaxWindows)

(* The handlers of a DataWindow run whenever the window exists.
   The user closes a DataWindow's Toplevel. *)
fechar_janela(w) ==
    /\ BagIn(w, wins)
    /\ wins' = wins (-) SetToBag({w})
    /\ messagebox' = ""
    /\ UNCHANGED <<files, log, log_locked, screen, usuario, permissao, retired>>

Matches(term, row) ==
    \E c \in 1..Len(row) : Contains(term, lower(str(row[c])))

RECURSIVE SelectRows(_, _)
SelectRows(rows, term) ==
    IF rows = <<>> THEN <<>>
    ELSE IF Matches(term, Head(rows))
         THEN <<Head(rows)>> \o SelectRows(Tail(rows), term)
         ELSE SelectRows(Tail(rows), term)

FilteredTree(filename, ws, entry) ==
    LET search_term == lower(entry)
        hits == SelectRows(DataRows(ws), search_term)
    IN  [i \in 1..Len(hits) |-> DisplayRow(filename, hits[i])]

filter_tree(w, entry) ==
    /\ BagIn(w, wins)
    /\ wins' = Replace(w, [w EXCEPT !.tree =
                              FilteredTree(w.filename, files[w.filename], entry)])
    /\ messagebox' = ""
    /\ UNCHANGED <<files, log, log_locked, screen, usuario, permissao, retired>>

(* --------------------------- RecordDialog ---------------------------- *)

(* RecordDialog.on_ok over the entries in header order: self.result after
   the click; the loop returns at the first entry that fails validation. *)
RECURSIVE on_ok(_, _, _, _)
on_ok(filename, headers, initial_data, entries) ==
    IF entries = <<>> THEN <<>>
    ELSE LET value == Head(entries)
             header == Head(headers)
             is_editing_user_password ==
                 /\ filename = USERS_FILE
                 /\ header = "SenhaHash"
                 /\ initial_data # <<>>
                 /\ value = PLACEHOLDER
         IN  IF value = "" /\ ~is_editing_user_password
             THEN <<>>
             ELSE <<value>> \o on_ok(filename, Tail(headers), initial_data,
                                     Tail(entries))

(* dialog.result once wait_window returns. *)
RecordDialog(filename, headers, initial_data, entries) ==
    on_ok(filename, Tail(headers), initial_data, entries)

(* ----------------------------- add_record ---------------------------- *)

new_id_mut(ws) ==
    LET max_row == Len(ws)
        last_id == ws[max_row][1]
    IN  IF max_row > 1 /\ last_id # PyNone /\ isdigit(str(last_id))
        THEN int(str(last_id))
        ELSE 1

new_id_of(ws) ==
    LET max_row == Len(ws)
        last_id == ws[max_row][1]
    IN  IF max_row > 1 /\ last_id # PyNone /\ isdigit(str(last_id))
        THEN int(str(last_id)) + 1
        ELSE 1

(* A worksheet row as iter_rows yields it: None beyond the cells written. *)
Padded(row, width) ==
    [c \in 1..width |-> IF c <= Len(row) THEN row[c] ELSE PyNone]

TotalDataRows ==
    (Len(files[VISITORS_FILE]) - 1) + (Len(files[MEMBERS_FILE]) - 1)
        + (Len(files[EMPLOYEES_FILE]) - 1)

RoomFor(filename) ==
    IF filename = USERS_FILE
    THEN Len(files[USERS_FILE]) - 1 < MaxUserRows
    ELSE TotalDataRows < MaxRows

(* The row add_record appends for a dialog result, <<>> when it saves
   nothing (no result, or the exception handler ran). *)
NewRow(filename, ws, result) ==
    LET new_id == new_id_of(ws)
        new_row == <<PyInt(new_id)>> \o StrRow(result)
    IN  IF result = <<>> THEN <<>>
        ELSE IF filename # USERS_FILE THEN new_row
        ELSE IF Len(new_row) < 3 THEN <<>>
        ELSE [new_row EXCEPT ![3] = PyStr(hash_password(new_row[3].s))]

add_record(w, entries) ==
    LET filename == w.filename
        ws == files[filename]
        result == RecordDialog(filename, HeadersOf(filename), <<>>, entries)
        new_row == NewRow(filename, ws, result)
    IN  /\ BagIn(w, wins)
        /\ ~w.read_only
        /\ IF new_row # <<>>
           THEN /\ RoomFor(filename)
                /\ new_row[1].n <= MaxId
                /\ files' = [files EXCEPT ![filename] =
                                Append(ws, Padded(new_row, Len(ws[1])))]
                /\ wins' = Replace(w, [w EXCEPT !.tree =
                                          load_data(filename, files'[filename])])
                /\ messagebox' = ""
           ELSE /\ messagebox' = IF result # <<>> THEN ERRO_ADICIONAR ELSE ""
                /\ UNCHANGED <<files, wins>>
        /\ UNCHANGED <<log, log_locked, screen, usuario, permissao, retired>>

(* ---------------------------- edit_record ---------------------------- *)

FindRow(ws, record_id) == {i \in 2..Len(ws) : ws[i][1] = record_id}

(* The cells edit_record writes over the row found, <<>> when it saves
   nothing (no result, or the exception handler ran). *)
UpdatedRow(filename, record_id, result) ==
    LET updated_row == <<record_id>> \o StrRow(result)
    IN  IF result = <<>> THEN <<>>
        ELSE IF filename # USERS_FILE THEN updated_row
        ELSE IF Len(result) < 2 THEN <<>>
        ELSE IF result[2] # PLACEHOLDER
             THEN [updated_row EXCEPT ![3] = PyStr(hash_password(result[2]))]
             ELSE updated_row

Overwrite(row, cells) ==
    [c \in 1..Len(row) |-> IF c <= Len(cells) THEN cells[c] ELSE row[c]]

edit_record(w, sel, entries) ==
    LET filename == w.filename
        ws == files[filename]
        record_id == TkValue(w.tree[sel][1])
        found == FindRow(ws, record_id)
        row_to_edit == Min(found)
        original_values == ws[row_to_edit]
        result == RecordDialog(filename, HeadersOf(filename), original_values,
                               entries)
        updated_row == UpdatedRow(filename, record_id, result)
    IN  /\ BagIn(w, wins)
        /\ ~w.read_only
        /\ sel \in 1..Len(w.tree)
        /\ IF found # {} /\ updated_row # <<>>
           THEN /\ files' = [files EXCEPT ![filename][row_to_edit] =
                                Overwrite(original_values, updated_row)]
                /\ wins' = Replace(w, [w EXCEPT !.tree =
                                          load_data(filename, files'[filename])])
                /\ messagebox' = ""
           ELSE /\ messagebox' = IF found = {} THEN ERRO_EDITAR
                                 ELSE IF result # <<>> THEN ERRO_EDICAO
                                 ELSE ""
                /\ UNCHANGED <<files, wins>>
        /\ UNCHANGED <<log, log_locked, screen, usuario, permissao, retired>>

(* --------------------------- delete_record --------------------------- *)

delete_rows_mut(ws, idx) == SubSeq(ws, 1, Len(ws) - 1)

(* ws.delete_rows(idx): the rows below move up. *)
delete_rows(ws, idx) == SubSeq(ws, 1, idx - 1) \o SubSeq(ws, idx + 1, Len(ws))

delete_record(w, sel, askyesno) ==
    LET filename == w.filename
        ws == files[filename]
        record_id == TkValue(w.tree[sel][1])
        found == FindRow(ws, record_id)
        row_to_delete == IF found = {} THEN -1 ELSE Min(found)
    IN  /\ BagIn(w, wins)
        /\ ~w.read_only
        /\ sel \in 1..Len(w.tree)
        /\ IF askyesno /\ row_to_delete # -1
           THEN /\ files' = [files EXCEPT ![filename] =
                                delete_rows(ws, row_to_delete)]
                /\ wins' = Replace(w, [w EXCEPT !.tree =
                                          load_data(filename, files'[filename])])
                /\ retired' = IF retired.on
                              THEN [retired EXCEPT !.ids[filename] =
                                       @ \cup {record_id}]
                              ELSE retired
                /\ messagebox' = ""
           ELSE /\ messagebox' = IF askyesno THEN ERRO_EXCLUIR ELSE ""
                /\ UNCHANGED <<files, wins, retired>>
        /\ UNCHANGED <<log, log_locked, screen, usuario, permissao>>

(* --------------------------- specification --------------------------- *)

OpenWins == BagToSet(wins)

SessionUpTo(cap) ==
    \/ \E user \in LoginNames, senha \in LoginSecrets :
           attempt_login(user, senha, cap)
    \/ logout(cap)
    \/ main

Session == SessionUpTo(MaxLog)

SessionLong == SessionUpTo(MaxLongLog)

Handlers ==
    \/ \E w \in OpenWins : fechar_janela(w)
    \/ \E w \in OpenWins, entry \in SearchTerms : filter_tree(w, entry)
    \/ \E w \in OpenWins : \E entries \in DialogEntries(w.filename) :
           add_record(w, entries)
    \/ \E w \in OpenWins : \E sel \in 1..Len(w.tree) :
           \E entries \in DialogEntries(w.filename) : edit_record(w, sel, entries)
    \/ \E w \in OpenWins : \E sel \in 1..Len(w.tree) : \E askyesno \in BOOLEAN :
           delete_record(w, sel, askyesno)

Next ==
    \/ Session
    \/ abrir_visitantes
    \/ abrir_membros
    \/ abrir_funcionarios
    \/ gerenciar_usuarios
    \/ Handlers

Spec == Init /\ [][Next]_vars

NextUsers == Session \/ gerenciar_usuarios \/ Handlers

SpecUsers == Init /\ [][NextUsers]_vars

NextData ==
    Session \/ abrir_visitantes \/ abrir_membros \/ abrir_funcionarios \/ Handlers

SpecData == Init /\ [][NextData]_vars

(* SpecData with the history variable recording. *)
SpecHist == InitHist /\ [][NextData]_vars

NextAccess == Session \/ gerenciar_usuarios \/ abrir_funcionarios \/ Handlers

SpecAccess == Init /\ [][NextAccess]_vars

(* The login claims: a usuarios.xlsx with duplicate rows, and a log long
   enough for a second session. *)
NextLogin == SessionLong \/ gerenciar_usuarios \/ Handlers

SpecLogin == InitLogin /\ [][NextLogin]_vars

(* Two windows on visitantes.xlsx, so that one can show a row the other has
   deleted. *)
NextStale == Session \/ abrir_visitantes_de_novo \/ Handlers

SpecStale == InitFresh /\ [][NextStale]_vars

(* The session while logs.xlsx goes missing or becomes unusable. *)
NextAudit == Session \/ apagar_log \/ travar_log

SpecAudit == Init /\ [][NextAudit]_vars

(* The Visitors window on a visitantes.xlsx of any content. *)
NextAny == Session \/ abrir_visitantes \/ Handlers

SpecAny == InitAny /\ [][NextAny]_vars

TypeOK ==
    /\ screen \in {"login", "menu"}
    /\ BagCardinality(wins) <= MaxWindows \/ BagCardinality(wins) <= MaxStale

(* ------------------------------ claims ------------------------------- *)

(* C1: every step that changes a record file appends exactly one Audit Log
   entry, for the logged-in actor. *)
C1_MutationsAudited ==
    [][files' # files =>
          /\ Len(log') = Len(log) + 1
          /\ log'[Len(log')][1] = PyStr(usuario)]_vars

(* C2: a create is never assigned an Identifier that a delete has retired
   from the same table. *)
C2_RetiredNeverReused ==
    [][\A f \in AllFiles :
          Len(files'[f]) = Len(files[f]) + 1 =>
              files'[f][Len(files'[f])][1] \notin retired.ids[f]]_vars

(* C3: the row a create persists in the Users table carries digest(s) in
   SenhaHash, and a login with the row's user name and s succeeds. *)
C3_SecretRoundTrip ==
    [][\A w \in OpenWins : \A entries \in DialogEntries(USERS_FILE) :
          (/\ w.filename = USERS_FILE
           /\ add_record(w, entries)
           /\ files' # files) =>
              LET ws == files'[USERS_FILE]
                  row == ws[Len(ws)]
              IN  /\ row[2] = PyStr(hash_password(entries[1]))
                  /\ LoginMatch(ws, str(row[1]), entries[1]) # {}]_vars

(* C4: an update of a User record that submits the placeholder as the
   secret leaves every stored SenhaHash, and so the outcome of every login,
   as it was. *)
C4_UpdatePreserve ==
    [][\A w \in OpenWins : \A sel \in 1..Len(w.tree) :
       \A entries \in DialogEntries(USERS_FILE) \ {<<>>} :
          (/\ w.filename = USERS_FILE
           /\ entries[1] = PLACEHOLDER
           /\ edit_record(w, sel, entries)) =>
              /\ \A i \in 2..Len(files[USERS_FILE]) :
                     files'[USERS_FILE][i][2] = files[USERS_FILE][i][2]
              /\ \A user \in LoginNames, senha \in LoginSecrets :
                     (LoginMatch(files'[USERS_FILE], user, senha) # {})
                         <=> (LoginMatch(files[USERS_FILE], user, senha) # {})]_vars

SubmittedSecrets ==
    {entries[1] : entries \in DialogEntries(USERS_FILE) \ {<<>>}}

(* C5: the SenhaHash cell of every Users row is an output of hash_password
   and is neither a submitted plaintext secret nor the placeholder. *)
C5_DigestsOnly ==
    \A i \in 2..Len(files[USERS_FILE]) :
        LET d == files[USERS_FILE][i][2]
        IN  /\ d \in {PyStr(hash_password(pw)) : pw \in HashDomain}
            /\ d \notin {PyStr(pw) : pw \in SubmittedSecrets \cup {PLACEHOLDER}}

(* C6: in a session whose permission is "leitura" no step changes a record
   file, and the only step that writes the Audit Log is the logout. *)
C6_ReadonlyChangesNothing ==
    [][(screen = "menu" /\ permissao = PyStr("leitura")) =>
          /\ files' = files
          /\ log' # log =>
                 /\ screen' = "login"
                 /\ log' = log_action(log, usuario, "Logout")]_vars

C6_Witness ==
    /\ screen = "menu"
    /\ permissao = PyStr("leitura")
    /\ \E w \in OpenWins : w.read_only /\ w.tree # <<>>

(* C7: while the session's permission is not "admin", no step changes the
   Users table. *)
C7_OnlyAdminChangesUsers ==
    [][permissao # PyStr("admin") =>
          files'[USERS_FILE] = files[USERS_FILE]]_vars

(* A "completo" session, the only one the log knows of, has written a record. *)
C7_Witness ==
    /\ screen = "menu"
    /\ permissao = PyStr("completo")
    /\ log = <<StrRow(LOG_HEADERS),
               <<PyStr(usuario), PyStr("Login bem-sucedido")>>>>
    /\ \E f \in DataFiles : Len(files[f]) > 1

SecretColumn(filename) == IF filename = USERS_FILE THEN {2} ELSE {}

RECURSIVE SelectNonSecret(_, _, _)
SelectNonSecret(filename, rows, term) ==
    IF rows = <<>> THEN <<>>
    ELSE LET row == Head(rows)
             hit == \E c \in (1..Len(row)) \ SecretColumn(filename) :
                        Contains(lower(term), lower(str(row[c])))
             rest == SelectNonSecret(filename, Tail(rows), term)
         IN  IF hit THEN <<DisplayRow(filename, row)>> \o rest ELSE rest

(* C8: a search shows exactly the rows of which some field other than the
   secret column contains the query, case-insensitively. *)
C8_SearchSkipsSecret ==
    [][\A w \in OpenWins : \A entry \in SearchTerms :
          filter_tree(w, entry) =>
              \E w2 \in BagToSet(wins') :
                  /\ w2.filename = w.filename
                  /\ w2.tree = SelectNonSecret(w.filename,
                                               DataRows(files[w.filename]),
                                               entry)]_vars

(* C9: every row a Users window shows carries the placeholder in the secret
   column, and never the value stored in that column of the row. *)
C9_Redacted ==
    \A w \in OpenWins :
        w.filename = USERS_FILE =>
            \A i \in 1..Len(w.tree) :
                /\ w.tree[i][2] = PyStr(PLACEHOLDER)
                /\ \A j \in FindRow(files[USERS_FILE], w.tree[i][1]) :
                       files[USERS_FILE][j][2] # w.tree[i][2]

(* C10: as long as no delete has happened in a record table that started
   empty, its rows carry the Identifiers 1, 2, 3, ... in creation order. *)
C10_CreatesNumberFromOne ==
    \A f \in DataFiles :
        retired.ids[f] = {} =>
            \A i \in 2..Len(files[f]) : files[f][i][1] = PyInt(i - 1)

C10_Witness ==
    \E f \in DataFiles : retired.ids[f] = {} /\ Len(files[f]) = 3

UniqueIds(ws) == \A i, j \in 2..Len(ws) : ws[i][1] = ws[j][1] => i = j

(* C11: the Identifiers of a record table are always pairwise distinct, and
   the row a create appends carries an integer Identifier greater than the
   Identifier of every row the table held before. *)
C11_UniqueAndAboveMax ==
    /\ [](\A f \in DataFiles : UniqueIds(files[f]))
    /\ [][\A w \in OpenWins : \A entries \in DialogEntries(w.filename) :
             (add_record(w, entries) /\ files' # files) =>
                 LET ws == files[w.filename]
                     new_id == files'[w.filename][Len(ws) + 1][1]
                 IN  /\ new_id.t = "int"
                     /\ \A i \in 2..Len(ws) :
                            ws[i][1].t = "int" /\ ws[i][1].n < new_id.n]_vars

(* A table that has lost a row holds two again. *)
C11_Witness ==
    \E f \in DataFiles : retired.ids[f] # {} /\ Len(files[f]) = 3

(* Entries that leave no field of the dialog empty. *)
AllFilled(filename, entries) ==
    /\ Len(entries) = Len(HeadersOf(filename)) - 1
    /\ \A k \in 1..Len(entries) : entries[k] # ""

(* C12: after an update that submits a value for every field, the window
   lists the record at its old position with its Identifier and exactly the
   submitted values (the placeholder in the secret column), and every other
   row of the table and every other table is as before. *)
C12_UpdateFrame ==
    [][\A w \in OpenWins : \A sel \in 1..Len(w.tree) :
       \A entries \in DialogEntries(w.filename) :
          LET filename == w.filename
              ws == files[filename]
              record_id == TkValue(w.tree[sel][1])
              found == FindRow(ws, record_id)
          IN  (/\ AllFilled(filename, entries)
               /\ found # {}
               /\ edit_record(w, sel, entries)) =>
                  /\ Len(files'[filename]) = Len(ws)
                  /\ load_data(filename, files'[filename])[Min(found) - 1]
                         = DisplayRow(filename,
                                      <<record_id>> \o StrRow(entries))
                  /\ \A i \in (1..Len(ws)) \ {Min(found)} :
                         files'[filename][i] = ws[i]
                  /\ \A g \in AllFiles \ {filename} : files'[g] = files[g]]_vars

(* The Users rows whose Usuario is the name presented and whose SenhaHash
   is the digest of the secret presented. *)
Credentialed(user, senha) ==
    {i \in 2..Len(files[USERS_FILE]) :
        /\ files[USERS_FILE][i][1] = PyStr(user)
        /\ files[USERS_FILE][i][2] = PyStr(hash_password(senha))}

(* C13: a login attempt for which no Users row has both the name and the
   digest of the secret presented shows the login error, writes nothing to
   the Audit Log, changes no table and leaves the session logged out. *)
C13_FailedLogin ==
    [][\A user \in LoginNames, senha \in LoginSecrets :
          (/\ attempt_login(user, senha, MaxLongLog)
           /\ Credentialed(user, senha) = {}) =>
              /\ messagebox' = ERRO_LOGIN
              /\ log' = log
              /\ files' = files
              /\ screen' = "login"
              /\ usuario' = ""
              /\ permissao' = PyNone]_vars

(* A login has failed after an earlier session was logged. *)
C13_Witness ==
    /\ screen = "login"
    /\ messagebox = ERRO_LOGIN
    /\ Len(log) > 1

(* C14: a login attempt succeeds exactly when some Users row has the name
   and the digest of the secret presented; a success appends exactly one
   "Login bem-sucedido" entry for that name and the session gets the
   Permissao of the first such row; on the seeded Users table the login
   admin/admin gets "admin". *)
C14_LoginFirstMatch ==
    [][\A user \in LoginNames, senha \in LoginSecrets :
          attempt_login(user, senha, MaxLongLog) =>
              LET rows == Credentialed(user, senha)
              IN  /\ (screen' = "menu") <=> (rows # {})
                  /\ rows # {} =>
                         /\ log' = Append(log, <<PyStr(user),
                                                 PyStr("Login bem-sucedido")>>)
                         /\ usuario' = user
                         /\ permissao' = files[USERS_FILE][Min(rows)][3]
                  /\ (/\ files[USERS_FILE] = SeededUsers
                      /\ user = "admin"
                      /\ senha = "admin") => permissao' = PyStr("admin")]_vars

(* "leo" is logged in while two rows carry his name and digest. *)
C14_Witness ==
    /\ screen = "menu"
    /\ usuario = "leo"
    /\ Cardinality(Credentialed("leo", "abc123")) = 2

LastEntry(lg) == lg[Len(lg)]

(* C15: while logged out there is no user, permission or window; the Audit
   Log grows only by a "Login bem-sucedido" entry on the step from the login
   screen to the menu and by a "Logout" entry for the logged-in user on the
   step back; every step into the menu is such a login, and every step out
   of it other than the end of the process is such a logout. *)
C15_SessionMachine ==
    /\ [](screen = "login" =>
             usuario = "" /\ permissao = PyNone /\ wins = EmptyBag)
    /\ [][/\ log' # log =>
               \/ /\ screen = "login" /\ screen' = "menu"
                  /\ log' = Append(log, <<PyStr(usuario'),
                                          PyStr("Login bem-sucedido")>>)
               \/ /\ screen = "menu" /\ screen' = "login"
                  /\ log' = Append(log, <<PyStr(usuario), PyStr("Logout")>>)
          /\ (screen = "login" /\ screen' = "menu") => log' # log
          /\ (screen = "menu" /\ screen' = "login" /\ ~main) => log' # log]_vars

(* A second session, begun after a logout. *)
C15_Witness ==
    /\ screen = "menu"
    /\ Len(log) = 4
    /\ log[2][2] = PyStr("Login bem-sucedido")
    /\ log[3][2] = PyStr("Logout")
    /\ LastEntry(log) = <<PyStr(usuario), PyStr("Login bem-sucedido")>>

IsPrefix(a, b) == Len(a) <= Len(b) /\ SubSeq(b, 1, Len(a)) = a

(* C16: every step of the program, the restart included, leaves the Audit
   Log it found as a prefix of the Audit Log it leaves. *)
C16_AppendOnly == [][IsPrefix(log, log')]_vars

(* The process was restarted during a logged session: the login screen is
   up and the last Audit Log entry is a login. *)
C16_Witness ==
    /\ screen = "login"
    /\ Len(log) > 1
    /\ LastEntry(log)[2] = PyStr("Login bem-sucedido")
    /\ \E f \in DataFiles : Len(files[f]) > 1

(* logs.xlsx cannot be appended to: it is missing, or it cannot be read or
   written. *)
AppendFails == log = <<>> \/ log_locked

(* C17: when the Audit Log append fails, the user is warned and the
   operation completes: a login with the name and digest of a Users row
   reaches the menu, and a logout reaches the login screen. *)
C17_AuditFailureNonFatal ==
    [][/\ \A user \in LoginNames, senha \in LoginSecrets :
             (/\ attempt_login(user, senha, MaxLog)
              /\ Credentialed(user, senha) # {}
              /\ AppendFails) =>
                 screen' = "menu" /\ messagebox' = LOG_ERRO
       /\ (logout(MaxLog) /\ AppendFails) =>
              screen' = "login" /\ messagebox' = LOG_ERRO]_vars

(* C18: an update of a Users row that submits a secret s other than the
   placeholder leaves digest(s) in the row's SenhaHash; a login with the
   row's name and s then matches the row, and one with any other secret
   does not. *)
C18_UpdateNewSecret ==
    [][\A w \in OpenWins : \A sel \in 1..Len(w.tree) :
       \A entries \in DialogEntries(USERS_FILE) :
          LET ws == files[USERS_FILE]
              found == FindRow(ws, TkValue(w.tree[sel][1]))
              row == files'[USERS_FILE][Min(found)]
          IN  (/\ w.filename = USERS_FILE
               /\ AllFilled(USERS_FILE, entries)
               /\ entries[1] # PLACEHOLDER
               /\ found # {}
               /\ edit_record(w, sel, entries)) =>
                  /\ row[2] = PyStr(hash_password(entries[1]))
                  /\ Min(found) \in LoginMatch(files'[USERS_FILE], str(row[1]),
                                               entries[1])
                  /\ \A senha \in LoginSecrets \ {entries[1]} :
                         Min(found) \notin LoginMatch(files'[USERS_FILE],
                                                      str(row[1]), senha)]_vars

(* C19: a confirmed delete of the record selected removes the first row
   that carries its Identifier and nothing else: the header and the other
   rows keep their content and order, the other tables are untouched, and
   the list no longer shows that Identifier; when no row carries it, the
   "not found" error is shown and the table is unchanged. *)
C19_DeleteFrame ==
    [][\A w \in OpenWins : \A sel \in 1..Len(w.tree) :
          delete_record(w, sel, TRUE) =>
              LET filename == w.filename
                  ws == files[filename]
                  record_id == TkValue(w.tree[sel][1])
                  found == {i \in 2..Len(ws) : ws[i][1] = record_id}
                  after == files'[filename]
                  list == load_data(filename, after)
              IN  /\ \A g \in AllFiles \ {filename} : files'[g] = files[g]
                  /\ IF found = {}
                     THEN after = ws /\ messagebox' = ERRO_EXCLUIR
                     ELSE /\ Len(after) = Len(ws) - 1
                          /\ \A i \in 1..(Min(found) - 1) : after[i] = ws[i]
                          /\ \A i \in Min(found)..Len(after) :
                                 after[i] = ws[i + 1]
                          /\ \A r \in 1..Len(list) : list[r][1] # record_id
                          /\ messagebox' = ""]_vars

(* A window still showed a record that was deleted through another window;
   its delete found no row. *)
C19_Witness ==
    /\ messagebox = ERRO_EXCLUIR
    /\ \E w \in OpenWins : \E r \in 1..Len(w.tree) :
           FindRow(files[w.filename], TkValue(w.tree[r][1])) = {}
    /\ Len(files[VISITORS_FILE]) > 1

(* The numeric Identifiers of a table: integer cells and cells whose text
   is a string of digits. *)
NumericIds(ws) ==
    {int(str(ws[i][1])) :
        i \in {j \in 2..Len(ws) : ws[j][1] # PyNone /\ isdigit(str(ws[j][1]))}}

MaxPlusOne(ws) ==
    IF NumericIds(ws) = {} THEN 1 ELSE Max(NumericIds(ws)) + 1

(* C20: whatever rows a record table holds, the Identifier a create would
   assign is one more than the greatest numeric Identifier in the table,
   and 1 when the table holds no numeric Identifier. *)
C20_NewIdIsMaxPlusOne ==
    \A f \in DataFiles : new_id_of(files[f]) = MaxPlusOne(files[f])

(* C21: the Identifiers of the Visitors, Members and Employees tables are
   positive integers that increase strictly from each row to the next, so
   the last row holds the greatest of them. *)
C21_IdsIncrease ==
    \A f \in DataFiles :
        LET ws == files[f]
        IN  /\ \A i \in 2..Len(ws) : ws[i][1].t = "int" /\ ws[i][1].n > 0
            /\ \A i \in 2..(Len(ws) - 1) : ws[i][1].n < ws[i + 1][1].n
            /\ \A i \in 2..Len(ws) : ws[i][1].n <= ws[Len(ws)][1].n

(* A table whose first record was deleted holds the second alone. *)
C21_Witness ==
    \E f \in DataFiles : Len(files[f]) = 2 /\ files[f][2][1] = PyInt(2)

(* C22: no window is open while logged out, and every step that changes a
   record table starts and ends in the menu of one session, the one whose
   login is the last entry of the Audit Log. *)
C22_NoChangeLoggedOut ==
    /\ [](screen = "login" => wins = EmptyBag)
    /\ [][files' # files =>
             /\ screen = "menu" /\ screen' = "menu"
             /\ usuario' = usuario /\ permissao' = permissao
             /\ permissao # PyNone
             /\ LastEntry(log) = <<PyStr(usuario),
                                   PyStr("Login bem-sucedido")>>]_vars

(* Logged out again after a session that changed the Users table and a
   record table. *)
C22_Witness ==
    /\ screen = "login"
    /\ LastEntry(log)[2] = PyStr("Logout")
    /\ files[USERS_FILE] \notin {SeededUsers, ExistingUsers}
    /\ Len(files[EMPLOYEES_FILE]) > 1

====
